---- MODULE Spec2Model ----
(***************************************************************************)
(* Supertrend breakout + retest scanner (src/main.py).                     *)
(*                                                                         *)
(* The program resolves its symbol universe once, then loops forever:      *)
(* scan (two worker pools, one after the other), deduplicate against the   *)
(* module-level set reported_signals, log and report the fresh signals to  *)
(* Telegram with bounded retries, roll the keys back when the send failed, *)
(* and sleep until five seconds past the next hour boundary.               *)
(*                                                                         *)
(* Python's None is the empty sequence <<>> and a value v is <<v>>.        *)
(* A ticker or a symbol is a sequence of characters. A message body is a   *)
(* stretch [from, to] of the characters of the rendered report, which are  *)
(* numbered from 1. Times are in milliseconds (the unit of the exchange's  *)
(* serverTime).                                                            *)
(***************************************************************************)
EXTENDS Integers, Sequences, FiniteSets, TLC

VARIABLES
    pc,                \* where main() stands
    creds,             \* TELEGRAM_BOT_TOKEN and TELEGRAM_CHAT_ID are both set
    exchange_info,     \* what /api/v3/exchangeInfo answered at startup
    symbols,           \* main's symbols, the result of get_usdt_pairs()
    cycle,             \* iterations of the while loop started so far
    reported_signals,  \* the module-level deduplication set
    signal_log,        \* the entries handed to log_signal_to_file, oldest first
    pool,              \* which ThreadPoolExecutor of scan_all_symbols is open
    futures1,          \* stage 1: one detect_signals task per symbol
    signal_candidates, \* scan_all_symbols' list of truthy stage-1 results
    futures2,          \* stage 2: one calculate_rsi_for_signal task per candidate
    final_signals,     \* scan_all_symbols' result, main's signals
    fresh_signals,     \* main's fresh_signals
    msg,               \* main's msg, the rendered report
    tg_msg,            \* send_telegram's msg parameter
    attempt,           \* send_telegram's loop variable
    tg_events,         \* what send_telegram did so far in this call: posts and sleeps
    success,           \* main's success, the result of send_telegram
    server_time,       \* main's server_time, in milliseconds
    next_hour,         \* main's next_hour, in milliseconds
    sleep_time,        \* main's sleep_time, in milliseconds
    store_at_scan,     \* history: reported_signals when the iteration began
    handed,            \* history: per key, the reports handed to send_telegram with it
    delivered,         \* history: per key, the reports send_telegram sent with it
    klines,            \* what the klines request of detect_signals answered
    st_lists,          \* calculate_supertrend's up_list, dn_list and trend_list while it runs
    st_result,         \* what calculate_supertrend returned for the closed candles
    detect_result      \* what detect_signals returned

vars == <<pc, creds, exchange_info, symbols, cycle, reported_signals, signal_log,
          pool, futures1, signal_candidates, futures2, final_signals,
          fresh_signals, msg, tg_msg, attempt, tg_events, success,
          server_time, next_hour, sleep_time, store_at_scan, handed, delivered,
          klines, st_lists, st_result, detect_result>>

(***************************************************************************)
(* Bounds of the model.                                                    *)
(***************************************************************************)
MaxCycles == 2      \* iterations of the main loop explored
MaxHour == 2        \* hour buckets a last closed candle can fall in
MaxClockHour == 1   \* hours of server time explored, counted from 0
MaxExcess == 1      \* characters a rendered report can exceed the cap by

(***************************************************************************)
(* Program constants.                                                      *)
(***************************************************************************)
MaxRetries == 3         \* send_telegram(msg, max_retries=3)
RetryPauseSeconds == 2  \* time.sleep(2)
MsgCap == 4096          \* msg[:4096]
BucketSeconds == 3600   \* (server_time // 3600 + 1) * 3600
MinSleepSeconds == 60   \* max(60, ...)
EpsilonSeconds == 5     \* next_hour - server_time + 5
MsPerSecond == 1000     \* ["serverTime"] / 1000

RetryPauseMs == RetryPauseSeconds * MsPerSecond
HourMs == BucketSeconds * MsPerSecond
MinSleepMs == MinSleepSeconds * MsPerSecond
EpsilonMs == EpsilonSeconds * MsPerSecond

None == <<>>
Some(v) == <<v>>

Min(a, b) == IF a <= b THEN a ELSE b
Max(a, b) == IF a >= b THEN a ELSE b

Range(s) == {s[i] : i \in 1..Len(s)}

RECURSIVE SelectSeqBy(_, _)
\* [x for x in s if x in keep]
SelectSeqBy(s, keep) ==
    IF s = <<>> THEN <<>>
    ELSE IF Head(s) \in keep THEN <<Head(s)>> \o SelectSeqBy(Tail(s), keep)
    ELSE SelectSeqBy(Tail(s), keep)

RECURSIVE Dedupe(_)
\* list(dict.fromkeys(s)): first occurrences, in order
Dedupe(s) ==
    IF s = <<>> THEN <<>>
    ELSE LET init == Dedupe(SubSeq(s, 1, Len(s) - 1))
             last == s[Len(s)]
         IN  IF last \in Range(init) THEN init ELSE Append(init, last)

(***************************************************************************)
(* Ticker universe: get_usdt_pairs.                                        *)
(***************************************************************************)
\* A sample of CUSTOM_TICKERS, in mixed case as in the source.
CUSTOM_TICKERS == << <<"A", "t">>, <<"C">> >>

LowerToUpper == [c \in {"a", "t", "c"} |-> CASE c = "a" -> "A" [] c = "t" -> "T" [] c = "c" -> "C"]

\* str.upper()
Upper(t) == [i \in 1..Len(t) |-> IF t[i] \in DOMAIN LowerToUpper THEN LowerToUpper[t[i]] ELSE t[i]]

USDT == <<"U", "S", "D", "T">>

Candidates == Dedupe([i \in 1..Len(CUSTOM_TICKERS) |-> Upper(CUSTOM_TICKERS[i]) \o USDT])

ATUSDT == <<"A", "T", "U", "S", "D", "T">>
CUSDT == <<"C", "U", "S", "D", "T">>
CBTC == <<"C", "B", "T", "C">>

Instrument(sym, quote, status) == [symbol |-> sym, quoteAsset |-> quote, status |-> status]

\* The request for the exchange metadata raised (or its answer did not parse).
FetchFailed == [raised |-> TRUE, symbols |-> {}]

\* The request answered with these instruments.
Fetched(instruments) == [raised |-> FALSE, symbols |-> instruments]

\* An answer with two curated pairs listed and trading.
BothTrading ==
    Fetched({Instrument(ATUSDT, "USDT", "TRADING"), Instrument(CUSDT, "USDT", "TRADING"),
             Instrument(CBTC, "BTC", "TRADING")})

\* The outcomes of the request explored from the start of the program: the
\* fetch failing, one curated pair trading, no curated pair trading.
ExchangeResponses ==
    { FetchFailed,
      Fetched({Instrument(ATUSDT, "USDT", "BREAK"), Instrument(CUSDT, "USDT", "TRADING"),
               Instrument(CBTC, "BTC", "TRADING")}),
      Fetched({Instrument(ATUSDT, "USDT", "BREAK"), Instrument(CBTC, "BTC", "TRADING")}) }

\* A symbol of the exchange that is not on the curated list.
XUSDT == <<"X", "U", "S", "D", "T">>

\* What the answer can say about one symbol: nothing, or one instrument with
\* a quote asset and a status.
Listings(sym, quotes, statuses) ==
    {{}} \cup {{Instrument(sym, q, st)} : q \in quotes, st \in statuses}

\* The answers of the request explored for get_usdt_pairs on its own: the
\* fetch failing, or any mix of curated and other symbols, quoted in USDT or
\* not, trading or not.
MetadataResponses ==
    {FetchFailed} \cup
    {Fetched(a \cup c \cup b \cup x) :
        a \in Listings(ATUSDT, {"USDT", "BTC"}, {"TRADING", "BREAK"}),
        c \in Listings(CUSDT, {"USDT", "BTC"}, {"TRADING", "BREAK"}),
        b \in Listings(CBTC, {"BTC"}, {"TRADING"}),
        x \in Listings(XUSDT, {"USDT"}, {"TRADING"})}

\* Mutant: the status of an instrument is not looked at.
GetUsdtPairsAnyStatus(resp) ==
    IF resp.raised THEN <<>>
    ELSE LET valid == {x.symbol : x \in {y \in resp.symbols : y.quoteAsset = "USDT"}}
         IN  SelectSeqBy(Candidates, valid)

\* get_usdt_pairs() for one outcome of the request
GetUsdtPairs(resp) ==
    IF resp.raised THEN <<>>
    ELSE LET valid == {x.symbol : x \in {y \in resp.symbols :
                                            y.quoteAsset = "USDT" /\ y.status = "TRADING"}}
         IN  SelectSeqBy(Candidates, valid)


(***************************************************************************)
(* Inputs of a scan: what the exchange's candles make detect_signals and   *)
(* calculate_rsi_for_signal return.                                        *)
(***************************************************************************)
Hours == 1..MaxHour

Kinds == {"breakout", "retest"}

\* The dicts detect_signals can return for a symbol: None, or a dict with a
\* 'breakout' entry, a 'retest' entry or both, each carrying the symbol and
\* the hour of the last closed candle (the fields the main loop reads).
DetectResults(symbol) ==
    {None} \cup
    {Some([k \in K |-> [symbol |-> symbol, hour |-> h]]) :
        h \in Hours, K \in (SUBSET Kinds) \ {{}}}

RsiValues == {55}

\* The values calculate_rsi_for_signal can return.
RsiResults == {None} \cup {Some(v) : v \in RsiValues}

\* The lengths format_signal_report's string can have: one short report and
\* the lengths around the cap (the rendering of a float has no fixed width).
ReportLengths == {432} \cup ((MsgCap - 1)..(MsgCap + MaxExcess))

\* A rendered report of n characters.
Rendered(n) == [from |-> 1, to |-> n]

\* len(s)
StrLen(s) == s.to - s.from + 1

\* s[:n]
SlicePrefix(s, n) == [from |-> s.from, to |-> Min(s.to, s.from + n - 1)]

\* The server times the model explores, around the hour boundaries.
Offsets == {0, 1, 100000, 3544999, 3545000, 3545001, 3599999}

ServerTimes == {h * HourMs + o : h \in 0..MaxClockHour, o \in Offsets}

EmptySignals == [breakouts |-> <<>>, retests |-> <<>>]

Letter(kind) == IF kind = "breakout" THEN "B" ELSE "R"

\* signal_key = ('B' | 'R', s['symbol'], s['hour'])
SignalKey(kind, s) == <<Letter(kind), s.symbol, s.hour>>

KeysOf(signals) ==
    {SignalKey("breakout", signals.breakouts[i]) : i \in 1..Len(signals.breakouts)} \cup
    {SignalKey("retest", signals.retests[i]) : i \in 1..Len(signals.retests)}

AllKeys == {<<l, s, h>> : l \in {"B", "R"}, s \in Range(Candidates), h \in Hours}

(***************************************************************************)
(* Initial state: the module has been imported, main() is about to run.    *)
(***************************************************************************)
Init ==
    /\ pc = "start"
    /\ creds \in BOOLEAN
    /\ exchange_info = None
    /\ symbols = <<>>
    /\ cycle = 0
    /\ reported_signals = {}
    /\ signal_log = <<>>
    /\ pool = "none"
    /\ futures1 = <<>>
    /\ signal_candidates = <<>>
    /\ futures2 = <<>>
    /\ final_signals = EmptySignals
    /\ fresh_signals = EmptySignals
    /\ msg = None
    /\ tg_msg = None
    /\ attempt = 0
    /\ tg_events = <<>>
    /\ success = None
    /\ server_time = None
    /\ next_hour = None
    /\ sleep_time = None
    /\ store_at_scan = {}
    /\ handed = [k \in AllKeys |-> 0]
    /\ delivered = [k \in AllKeys |-> 0]
    /\ klines = None
    /\ st_lists = None
    /\ st_result = None
    /\ detect_result = None

scan_vars == <<pool, futures1, signal_candidates, futures2, final_signals>>
report_vars == <<fresh_signals, msg>>
tg_vars == <<tg_msg, attempt, tg_events, success>>
sched_vars == <<server_time, next_hour, sleep_time>>
hist_vars == <<store_at_scan, handed, delivered>>
env_vars == <<creds, exchange_info, symbols>>
indicator_vars == <<klines, st_lists, st_result, detect_result>>

(***************************************************************************)
(* main(), lines 620-625: resolve the universe, exit when it is empty.     *)
(***************************************************************************)
\* Mutant: the empty universe is not checked, the loop is entered.
StartupNoExit ==
    /\ pc = "start"
    /\ \E resp \in ExchangeResponses :
        /\ exchange_info' = Some(resp)
        /\ symbols' = GetUsdtPairs(resp)
        /\ pc' = "loop"
    /\ UNCHANGED <<indicator_vars, creds, cycle, reported_signals, signal_log>>
    /\ UNCHANGED <<scan_vars, report_vars, tg_vars, sched_vars, hist_vars>>

Startup ==
    /\ pc = "start"
    /\ \E resp \in ExchangeResponses :
        /\ exchange_info' = Some(resp)
        /\ symbols' = GetUsdtPairs(resp)
        /\ pc' = IF GetUsdtPairs(resp) = <<>> THEN "exited" ELSE "loop"
    /\ UNCHANGED <<indicator_vars, creds, cycle, reported_signals, signal_log>>
    /\ UNCHANGED <<scan_vars, report_vars, tg_vars, sched_vars, hist_vars>>

\* Line 620 on its own: get_usdt_pairs() is called and returns.
ResolveUniverse ==
    /\ pc = "start"
    /\ \E resp \in MetadataResponses :
        /\ exchange_info' = Some(resp)
        /\ symbols' = GetUsdtPairs(resp)
    /\ pc' = "resolved"
    /\ UNCHANGED <<indicator_vars, creds, cycle, reported_signals, signal_log>>
    /\ UNCHANGED <<scan_vars, report_vars, tg_vars, sched_vars, hist_vars>>

\* get_usdt_pairs applied to every answer of the metadata request.
SpecPairs == Init /\ [][ResolveUniverse]_vars

(***************************************************************************)
(* scan_all_symbols, lines 442-515.                                        *)
(***************************************************************************)
Pending == [st |-> "pending", res |-> None]

\* Mutant: the pool is left as soon as one future was taken.
AnyCollected(futures) == \E i \in 1..Len(futures) : futures[i].st = "collected"

\* The as_completed loop has taken every future of the pool (and the with
\* block, which waits for every task, can be left).
AllCollected(futures) == \A i \in 1..Len(futures) : futures[i].st = "collected"

\* Top of the while loop and lines 446-453: the stage-1 pool is created and
\* one detect_signals task is submitted per symbol.
ScanStart ==
    /\ pc = "loop"
    /\ cycle < MaxCycles
    /\ cycle' = cycle + 1
    /\ pc' = "scan"
    /\ pool' = "stage1"
    /\ futures1' = [i \in 1..Len(symbols) |-> Pending]
    /\ signal_candidates' = <<>>
    /\ futures2' = <<>>
    /\ final_signals' = EmptySignals
    /\ store_at_scan' = reported_signals
    /\ UNCHANGED <<env_vars, indicator_vars, reported_signals, signal_log, report_vars, tg_vars,
                   sched_vars, handed, delivered>>

\* A stage-1 worker runs detect_signals(symbols[i]) to its return.
DetectSignals(i) ==
    /\ pool = "stage1"
    /\ futures1[i].st = "pending"
    /\ \E r \in DetectResults(symbols[i]) :
        futures1' = [futures1 EXCEPT ![i] = [st |-> "done", res |-> r]]
    /\ UNCHANGED <<pc, env_vars, indicator_vars, cycle, reported_signals, signal_log, pool,
                   signal_candidates, futures2, final_signals, report_vars,
                   tg_vars, sched_vars, hist_vars>>

\* Lines 455-458: the main thread takes a completed future.
CollectStage1(i) ==
    /\ pool = "stage1"
    /\ futures1[i].st = "done"
    /\ futures1' = [futures1 EXCEPT ![i].st = "collected"]
    /\ signal_candidates' =
         IF futures1[i].res # None
         THEN Append(signal_candidates, futures1[i].res[1])
         ELSE signal_candidates
    /\ UNCHANGED <<pc, env_vars, indicator_vars, cycle, reported_signals, signal_log, pool,
                   futures2, final_signals, report_vars, tg_vars, sched_vars,
                   hist_vars>>

\* Lines 459-477: the stage-1 pool is left (every future was taken); with
\* candidates the stage-2 pool is created, else the empty result is returned.
Stage1Drained ==
    /\ pool = "stage1"
    /\ AllCollected(futures1)
    /\ IF signal_candidates # <<>>
       THEN /\ pool' = "stage2"
            /\ futures2' = [j \in 1..Len(signal_candidates) |-> Pending]
            /\ pc' = pc
       ELSE /\ pool' = "none"
            /\ futures2' = futures2
            /\ pc' = "filter"
    /\ UNCHANGED <<env_vars, indicator_vars, cycle, reported_signals, signal_log, futures1,
                   signal_candidates, final_signals, report_vars, tg_vars,
                   sched_vars, hist_vars>>

\* A stage-2 worker runs calculate_rsi_for_signal for candidate j.
CalculateRsiForSignal(j) ==
    /\ pool = "stage2"
    /\ futures2[j].st = "pending"
    /\ \E r \in RsiResults :
        futures2' = [futures2 EXCEPT ![j] = [st |-> "done", res |-> r]]
    /\ UNCHANGED <<pc, env_vars, indicator_vars, cycle, reported_signals, signal_log, pool,
                   futures1, signal_candidates, final_signals, report_vars,
                   tg_vars, sched_vars, hist_vars>>

\* {**data, 'rsi': rsi}
WithRsi(data, rsi) == [symbol |-> data.symbol, hour |-> data.hour, rsi |-> rsi]

\* Mutant: the test of the RSI is dropped, the entry is appended with
\* whatever the task returned.
AppendKindAnyRsi(list, result, kind, rsi) ==
    IF kind \in DOMAIN result
    THEN Append(list, WithRsi(result[kind], rsi))
    ELSE list

\* Lines 483-497 for one kind: the candidate's entry of that kind, with its
\* RSI, is appended when the RSI is not None.
AppendKind(list, result, kind, rsi) ==
    IF kind \in DOMAIN result /\ rsi # None
    THEN Append(list, WithRsi(result[kind], rsi[1]))
    ELSE list

\* Lines 479-497: the main thread takes a completed stage-2 future.
CollectStage2(j) ==
    /\ pool = "stage2"
    /\ futures2[j].st = "done"
    /\ futures2' = [futures2 EXCEPT ![j].st = "collected"]
    /\ final_signals' =
         [breakouts |-> AppendKind(final_signals.breakouts, signal_candidates[j],
                                   "breakout", futures2[j].res),
          retests |-> AppendKind(final_signals.retests, signal_candidates[j],
                                 "retest", futures2[j].res)]
    /\ UNCHANGED <<pc, env_vars, indicator_vars, cycle, reported_signals, signal_log, pool,
                   futures1, signal_candidates, report_vars, tg_vars, sched_vars,
                   hist_vars>>

\* Lines 498-515: the stage-2 pool is left and final_signals is returned (the
\* breakout filters are off: MIN_STRENGTH_SCORE, MIN_CSINCE, MIN_VOLUME_MULT = 0).
Stage2Drained ==
    /\ pool = "stage2"
    /\ AllCollected(futures2)
    /\ pool' = "none"
    /\ pc' = "filter"
    /\ UNCHANGED <<env_vars, indicator_vars, cycle, reported_signals, signal_log, futures1,
                   signal_candidates, futures2, final_signals, report_vars,
                   tg_vars, sched_vars, hist_vars>>

(***************************************************************************)
(* main(), lines 641-660: deduplication and logging.                       *)
(***************************************************************************)
\* Mutant: the membership test is dropped, every detected signal is fresh.
IsFreshAlways(key, store) == TRUE

\* signal_key not in reported_signals
IsFresh(key, store) == key \notin store

RECURSIVE FilterKind(_, _, _)
\* One of the two for-loops of lines 644-658 over a list of signals: a signal
\* whose key is not in the store is added to it and kept as fresh.
FilterKind(list, kind, store) ==
    IF list = <<>> THEN [store |-> store, fresh |-> <<>>]
    ELSE LET key == SignalKey(kind, Head(list))
             new == IsFresh(key, store)
             rest == FilterKind(Tail(list), kind, IF new THEN store \cup {key} ELSE store)
         IN  [store |-> rest.store,
              fresh |-> IF new THEN <<Head(list)>> \o rest.fresh ELSE rest.fresh]

\* log_signal_to_file(signal_data, signal_type): the entry it builds. The
\* timestamp is the iteration; the append to LOG_FILE is best-effort and
\* nothing reads the file back.
LogEntry(now, signal_data, signal_type) ==
    [timestamp |-> now, type |-> signal_type, data |-> signal_data]

\* Mutant: the log call stands before the if, every detected signal is logged.
LoggedByDetected(detected, fresh, now, signal_type) ==
    [i \in 1..Len(detected) |-> LogEntry(now, detected[i], signal_type)]

\* The log calls of one for-loop of lines 644-658: one per signal the loop
\* found fresh (the call stands inside the if).
LoggedBy(detected, fresh, now, signal_type) ==
    [i \in 1..Len(fresh) |-> LogEntry(now, fresh[i], signal_type)]

FilterNewSignals ==
    /\ pc = "filter"
    /\ LET b == FilterKind(final_signals.breakouts, "breakout", reported_signals)
           r == FilterKind(final_signals.retests, "retest", b.store)
       IN  /\ reported_signals' = r.store
           /\ fresh_signals' = [breakouts |-> b.fresh, retests |-> r.fresh]
           /\ signal_log' = signal_log
                \o LoggedBy(final_signals.breakouts, b.fresh, cycle, "breakout")
                \o LoggedBy(final_signals.retests, r.fresh, cycle, "retest")
    /\ pc' = "report"
    /\ UNCHANGED <<env_vars, indicator_vars, cycle, scan_vars, msg, tg_vars, sched_vars, hist_vars>>

(***************************************************************************)
(* main(), lines 660-672: the report and the call of send_telegram.        *)
(***************************************************************************)
FreshCount == Len(fresh_signals.breakouts) + Len(fresh_signals.retests)

\* The history count of each key of a report goes up by one.
CountReport(count, signals) ==
    [k \in AllKeys |-> IF k \in KeysOf(signals) THEN count[k] + 1 ELSE count[k]]

\* Mutant: the body is handed over uncut.
MessageBodyUncut(m) == m

\* msg[:4096]
MessageBody(m) == SlicePrefix(m, MsgCap)

Report ==
    /\ pc = "report"
    /\ IF FreshCount > 0
       THEN \E n \in ReportLengths :
              /\ msg' = Some(Rendered(n))
              /\ tg_msg' = Some(MessageBody(Rendered(n)))
              /\ attempt' = 0
              /\ tg_events' = <<>>
              /\ success' = None
              /\ handed' = CountReport(handed, fresh_signals)
              /\ pc' = "send"
       ELSE /\ pc' = "wait"
            /\ UNCHANGED <<msg, tg_vars, handed>>
    /\ UNCHANGED <<env_vars, indicator_vars, cycle, reported_signals, signal_log, scan_vars,
                   fresh_signals, sched_vars, store_at_scan, delivered>>

(***************************************************************************)
(* send_telegram, lines 77-104.                                            *)
(***************************************************************************)
\* What one requests.post can do: answer 200, answer another status, raise.
PostOutcomes == {"200", "500", "exception"}

Post(outcome) == [ev |-> "post", outcome |-> outcome]
Pause == [ev |-> "sleep", ms |-> RetryPauseMs]

\* Mutant: a 200 answer is not taken as success, the loop goes on.
PostSucceededNever(outcome) == FALSE

\* Line 93: response.status_code == 200
PostSucceeded(outcome) == outcome = "200"

\* Lines 98-101: the pause after an attempt, in the except branch only.
PauseAfter(a, outcome) == outcome = "exception" /\ a < MaxRetries - 1

\* Lines 79-81.
TelegramNoCredentials ==
    /\ pc = "send"
    /\ ~creds
    /\ success' = Some(FALSE)
    /\ pc' = "sent"
    /\ UNCHANGED <<env_vars, indicator_vars, cycle, reported_signals, signal_log, scan_vars,
                   report_vars, tg_msg, attempt, tg_events, sched_vars, hist_vars>>

\* One iteration of the for-loop of lines 85-101; attempt counts the
\* iterations begun so far.
TelegramAttempt ==
    /\ pc = "send"
    /\ creds
    /\ attempt < MaxRetries
    /\ \E outcome \in PostOutcomes :
        IF PostSucceeded(outcome)
        THEN /\ tg_events' = Append(tg_events, Post(outcome))
             /\ attempt' = attempt
             /\ success' = Some(TRUE)
             /\ delivered' = CountReport(delivered, fresh_signals)
             /\ pc' = "sent"
        ELSE /\ tg_events' = IF PauseAfter(attempt, outcome)
                             THEN tg_events \o <<Post(outcome), Pause>>
                             ELSE Append(tg_events, Post(outcome))
             /\ attempt' = attempt + 1
             /\ success' = success
             /\ delivered' = delivered
             /\ pc' = pc
    /\ UNCHANGED <<env_vars, indicator_vars, cycle, reported_signals, signal_log, scan_vars,
                   report_vars, tg_msg, sched_vars, store_at_scan, handed>>

\* Lines 103-104: the loop ran out.
TelegramGiveUp ==
    /\ pc = "send"
    /\ creds
    /\ attempt = MaxRetries
    /\ success' = Some(FALSE)
    /\ pc' = "sent"
    /\ UNCHANGED <<env_vars, indicator_vars, cycle, reported_signals, signal_log, scan_vars,
                   report_vars, tg_msg, attempt, tg_events, sched_vars, hist_vars>>

(***************************************************************************)
(* main(), lines 674-681: the keys of a failed report are un-marked.       *)
(***************************************************************************)
\* Mutant: a failed report leaves the store as it is.
RollbackNothing(store, fresh) == store

\* Mutant: a failed report empties the store.
RollbackEverything(store, fresh) == {}

\* The two discard loops.
Rollback(store, fresh) == store \ KeysOf(fresh)

HandleSendResult ==
    /\ pc = "sent"
    /\ reported_signals' = IF success = Some(FALSE)
                           THEN Rollback(reported_signals, fresh_signals)
                           ELSE reported_signals
    /\ pc' = "wait"
    /\ UNCHANGED <<env_vars, indicator_vars, cycle, signal_log, scan_vars, report_vars, tg_vars,
                   sched_vars, hist_vars>>

(***************************************************************************)
(* main(), lines 685-693: the scheduler.                                   *)
(***************************************************************************)
\* Mutant: the boundary is rounded up, so a time on a boundary is its own
\* next boundary.
NextHourCeiling(t) == ((t + HourMs - 1) \div HourMs) * HourMs

\* (server_time // 3600 + 1) * 3600
NextHour(t) == (t \div HourMs + 1) * HourMs

\* Mutant: the five seconds past the boundary are left out.
SleepTimeNoEpsilon(t) == Max(MinSleepMs, NextHour(t) - t)

\* max(60, next_hour - server_time + 5)
SleepTime(t) == Max(MinSleepMs, NextHour(t) - t + EpsilonMs)

\* Lines 686-688: the server time is read (or the local clock, when the
\* request fails) and the sleep is computed. The iteration's report and its
\* send_telegram call are over: their variables are dropped here.
ComputeSleep ==
    /\ pc = "wait"
    /\ \E t \in ServerTimes :
        /\ server_time' = Some(t)
        /\ next_hour' = Some(NextHour(t))
        /\ sleep_time' = Some(SleepTime(t))
    /\ msg' = None
    /\ tg_msg' = None
    /\ attempt' = 0
    /\ tg_events' = <<>>
    /\ pc' = "sleeping"
    /\ UNCHANGED <<env_vars, indicator_vars, cycle, reported_signals, signal_log, scan_vars,
                   fresh_signals, success, hist_vars>>

\* Line 693 returns; the next iteration rebinds every local of the loop.
WakeUp ==
    /\ pc = "sleeping"
    /\ pc' = "loop"
    /\ futures1' = <<>>
    /\ signal_candidates' = <<>>
    /\ futures2' = <<>>
    /\ final_signals' = EmptySignals
    /\ fresh_signals' = EmptySignals
    /\ success' = None
    /\ server_time' = None
    /\ next_hour' = None
    /\ sleep_time' = None
    /\ UNCHANGED <<env_vars, indicator_vars, cycle, reported_signals, signal_log, pool, msg,
                   tg_msg, attempt, tg_events, hist_vars>>

\* One step of the while loop of main().
Loop ==
    \/ ScanStart
    \/ \E i \in 1..Len(futures1) : DetectSignals(i)
    \/ \E i \in 1..Len(futures1) : CollectStage1(i)
    \/ Stage1Drained
    \/ \E j \in 1..Len(futures2) : CalculateRsiForSignal(j)
    \/ \E j \in 1..Len(futures2) : CollectStage2(j)
    \/ Stage2Drained
    \/ FilterNewSignals
    \/ Report
    \/ TelegramNoCredentials
    \/ TelegramAttempt
    \/ TelegramGiveUp
    \/ HandleSendResult
    \/ ComputeSleep
    \/ WakeUp

Next ==
    \/ Startup
    \/ Loop

Spec == Init /\ [][Next]_vars

(***************************************************************************)
(* The last iteration explored, with two symbols in the universe: the      *)
(* interleavings of the worker tasks of both pools. The iterations before  *)
(* it either detected nothing or reported one breakout of the first hour.  *)
(***************************************************************************)
EarlierBreakout == [symbol |-> CUSDT, hour |-> 1, rsi |-> 55]

InitScan ==
    /\ pc = "loop"
    /\ creds \in BOOLEAN
    /\ exchange_info = Some(BothTrading)
    /\ symbols = GetUsdtPairs(BothTrading)
    /\ cycle = MaxCycles - 1
    /\ \E earlier \in BOOLEAN :
        LET key == SignalKey("breakout", EarlierBreakout)
            count == [k \in AllKeys |-> IF earlier /\ k = key THEN 1 ELSE 0]
        IN  /\ cycle >= 1 \/ ~earlier
            /\ reported_signals = IF earlier THEN {key} ELSE {}
            /\ signal_log = IF earlier THEN <<LogEntry(1, EarlierBreakout, "breakout")>>
                             ELSE <<>>
            /\ store_at_scan = {}
            /\ handed = count
            /\ delivered = count
    /\ pool = "none"
    /\ futures1 = <<>>
    /\ signal_candidates = <<>>
    /\ futures2 = <<>>
    /\ final_signals = EmptySignals
    /\ fresh_signals = EmptySignals
    /\ msg = None
    /\ tg_msg = None
    /\ attempt = 0
    /\ tg_events = <<>>
    /\ success = None
    /\ server_time = None
    /\ next_hour = None
    /\ sleep_time = None
    /\ klines = None
    /\ st_lists = None
    /\ st_result = None
    /\ detect_result = None

SpecScan == InitScan /\ [][Loop]_vars

(***************************************************************************)
(* The indicator functions: calculate_atr, calculate_supertrend and        *)
(* detect_signals. The floats of the source are fixed-point numbers here:  *)
(* a price p is the integer p * PriceScale and a volume v the integer      *)
(* v * VolumeScale, and every division is exact (the scales hold the       *)
(* denominators that the candles explored can produce).                    *)
(***************************************************************************)
MaxTail == 2    \* candles that follow the quiet stretch of an answer

AtrPeriod == 10             \* calculate_supertrend(candles, atr_period=10, ...)
SupertrendMultiplier == 3   \* multiplier=3.0
MinCandles == 30            \* len(candles) < 30
VOL_LEN == 20
RETEST_TIMING_MAX == 15
ATR_MOVE_MULT == [num |-> 1, den |-> 2]     \* 0.5
VOL_MULT_RETEST == [num |-> 3, den |-> 2]   \* 1.5

PriceScale == 2 * 10^MaxTail
VolumeScale == 2 * VOL_LEN

\* a / b, where b divides a
ExactDiv(a, b) == (CHOOSE x \in {a} : x % b = 0) \div b

\* x * q for a fraction q
Times(x, q) == ExactDiv(x * q.num, q.den)

Abs(x) == IF x >= 0 THEN x ELSE -x

RECURSIVE SumSeq(_)
SumSeq(s) == IF s = <<>> THEN 0 ELSE Head(s) + SumSeq(Tail(s))

\* float(candle[1..5]) of one kline, and the hour of its open time
Kline(hour, shape) ==
    [hour |-> hour,
     open |-> shape[1] * PriceScale, high |-> shape[2] * PriceScale,
     low |-> shape[3] * PriceScale, close |-> shape[4] * PriceScale,
     volume |-> shape[5] * VolumeScale]

\* tr = max(high - low, abs(high - prev_close), abs(low - prev_close))
TrueRange(candle, prev) ==
    Max(Max(candle.high - candle.low, Abs(candle.high - prev.close)),
        Abs(candle.low - prev.close))

RECURSIVE Rma(_, _, _, _)
\* for i in range(period, len(trs)): atr = (atr * (period - 1) + trs[i]) / period
Rma(atr, trs, i, period) ==
    IF i > Len(trs) THEN atr
    ELSE Rma(ExactDiv(atr * (period - 1) + trs[i], period), trs, i + 1, period)

calculate_atr(candles, period) ==
    IF Len(candles) < period + 1 THEN None
    ELSE LET trs == [i \in 1..(Len(candles) - 1) |-> TrueRange(candles[i + 1], candles[i])]
             atr == ExactDiv(SumSeq(SubSeq(trs, 1, period)), period)
         IN  Some(Rma(atr, trs, period + 1, period))

Last(s) == s[Len(s)]

\* Mutant: the bands are taken one for the other (up_list holds the lower
\* band and dn_list the upper one).
NextTrendBandsSwapped(prev_trend, close, prev_up, prev_dn) ==
    IF prev_trend = -1 /\ close > prev_up THEN 1
    ELSE IF prev_trend = 1 /\ close < prev_dn THEN -1
    ELSE prev_trend

\* Lines 203-208: the direction of a bar after the first one.
NextTrend(prev_trend, close, prev_up, prev_dn) ==
    IF prev_trend = -1 /\ close > prev_dn THEN 1
    ELSE IF prev_trend = 1 /\ close < prev_up THEN -1
    ELSE prev_trend

\* The lists before the for-loop of calculate_supertrend.
EmptyLists == [up_list |-> <<>>, dn_list |-> <<>>, trend_list |-> <<>>]

\* One pass of the for-loop of calculate_supertrend, for candle k (k = idx +
\* 1) with atr = calculate_atr(candles[:idx+1], atr_period); lists.up_list[-1]
\* is the previous bar's band while the bar is worked on.
SupertrendBar(candles, atr_period, multiplier, k, atr, lists) ==
    LET high == candles[k].high
        low == candles[k].low
        close == candles[k].close
        src == ExactDiv(high + low, 2)
        prev_close == candles[k - 1].close
        up0 == src - multiplier * atr
        up1 == IF Len(lists.up_list) > 0 THEN Last(lists.up_list) ELSE up0
        up == IF prev_close > up1 THEN Max(up0, up1) ELSE up0
        dn0 == src + multiplier * atr
        dn1 == IF Len(lists.dn_list) > 0 THEN Last(lists.dn_list) ELSE dn0
        dn == IF prev_close < dn1 THEN Min(dn0, dn1) ELSE dn0
        trend == IF k = atr_period + 1 THEN 1
                 ELSE NextTrend(Last(lists.trend_list), close,
                                Last(lists.up_list), Last(lists.dn_list))
    IN  [up_list |-> Append(lists.up_list, up),
         dn_list |-> Append(lists.dn_list, dn),
         trend_list |-> Append(lists.trend_list, trend)]

\* s[-2] if len(s) > 1 else s[-1]
LastButOne(s) == IF Len(s) > 1 THEN s[Len(s) - 1] ELSE Last(s)

\* Lines 212-222: what calculate_supertrend returns, with the lists it built.
SupertrendResult(lists) ==
    [trend_list |-> lists.trend_list,
     up_list |-> lists.up_list,
     dn_list |-> lists.dn_list,
     last_trend |-> Last(lists.trend_list),
     prev_trend |-> LastButOne(lists.trend_list),
     last_up |-> Last(lists.up_list),
     last_dn |-> Last(lists.dn_list),
     prev_dn |-> LastButOne(lists.dn_list)]

\* Line 334: prev_trend == -1 and last_trend == 1
BullishFlip(prev_trend, last_trend) == prev_trend = -1 /\ last_trend = 1

\* Line 337: abs(close - prev_close) >= (atr * ATR_MOVE_MULT)
MoveConfirmation(close, prev_close, atr) ==
    Abs(close - prev_close) >= Times(atr, ATR_MOVE_MULT)

\* Mutant: a volume equal to the threshold passes.
VolConfirmedNotStrict(volume, vol_sma) == volume >= Times(vol_sma, VOL_MULT_RETEST)

\* Lines 361 and 401: volume > (vol_sma * VOL_MULT_RETEST)
VolConfirmed(volume, vol_sma) == volume > Times(vol_sma, VOL_MULT_RETEST)

\* The answers of the klines request: the request raised (or its body did
\* not parse), the exchange answered with an error object, or with candles.
KlinesRaised == [kind |-> "raised", candles |-> <<>>]
KlinesError == [kind |-> "error", candles |-> <<>>]
KlinesCandles(candles) == [kind |-> "candles", candles |-> candles]

\* detect_signals(symbol) for one answer of its klines request, st_opt being
\* what calculate_supertrend returns for the closed candles. Of a signal
\* the symbol and the hour are kept, the fields the main loop reads; the
\* fields that are only shown in the report (pct, csince, vm, the distances,
\* indicator_strength) are computed for the divisions that can raise.
detect_signals(symbol, answer, st_opt) ==
    IF answer.kind = "raised" THEN None
    ELSE IF answer.kind = "error" \/ answer.candles = <<>>
            \/ Len(answer.candles) < MinCandles THEN None
    ELSE
      LET candles == answer.candles
          last == Len(candles) - 1            \* last_idx + 1
          last_candle == candles[last]
          prev_candle == candles[last - 1]
          prev_close == prev_candle.close
          open_p == last_candle.open
          low == last_candle.low
          close == last_candle.close
          volume == last_candle.volume
          closed == SubSeq(candles, 1, last)  \* candles[:last_idx+1]
          st == st_opt[1]
          atr == calculate_atr(closed, AtrPeriod)[1]
          vol_ma_start == Max(0, (last - 1) - VOL_LEN + 1)
          vol_ma_data == [j \in 1..(last - vol_ma_start) |-> candles[vol_ma_start + j].volume]
          vol_sma == ExactDiv(SumSeq(vol_ma_data), Len(vol_ma_data))
          bullish_flip == BullishFlip(st.prev_trend, st.last_trend)
          move_confirmation == MoveConfirmation(close, prev_close, atr)
          breakout_branch == bullish_flip /\ move_confirmation
          breakout == breakout_branch /\ VolConfirmed(volume, vol_sma)
          starts == {q \in 2..Len(st.trend_list) :
                        st.trend_list[q] = 1 /\ st.trend_list[q - 1] = -1}
          trend_start == CHOOSE q \in starts : \A r \in starts : r <= q
          bars_in_trend == Len(st.trend_list) - trend_start
          retest ==
              /\ st.last_trend = 1
              /\ starts # {}
              /\ low <= st.last_up
              /\ close > st.last_up
              /\ close > open_p
              /\ bars_in_trend <= RETEST_TIMING_MAX
              /\ VolConfirmed(volume, vol_sma)
          \* ZeroDivisionError: pct, red_distance and green_distance,
          \* support_distance; caught by the except of the function
          raises ==
              \/ prev_close = 0
              \/ breakout_branch /\ (st.prev_dn = 0 \/ st.last_up = 0)
              \/ retest /\ st.last_up = 0
          emitted == {kind \in Kinds : \/ kind = "breakout" /\ breakout
                                       \/ kind = "retest" /\ retest}
      IN  IF st_opt = None \/ raises \/ emitted = {} THEN None
          ELSE Some([kind \in emitted |-> [symbol |-> symbol, hour |-> last_candle.hour]])

(***************************************************************************)
(* The answers of the klines request explored: a quiet stretch of equal    *)
(* candles, then up to MaxTail candles of the shapes below, then the       *)
(* candle that is still open. A shape is <<open, high, low, close,         *)
(* volume>>.                                                               *)
(***************************************************************************)
Quiet == <<100, 101, 99, 100, 37>>
Crash == <<100, 100, 58, 58, 37>>          \* closes below the lower band
Rally == <<58, 100, 58, 100, 58>>          \* closes above the upper band, on volume
RallyAtThreshold == <<58, 100, 58, 100, 57>>   \* volume = 1.5 * SMA after a quiet stretch
PlungeRecover == <<92, 93, 50, 93, 37>>    \* wide range, closes just below the lower band
Drift == <<93, 95, 92, 94, 58>>            \* a small move, on volume
Spike == <<58, 804, 58, 98, 58>>           \* after a Crash: move = 0.5 * ATR

CandleShapes == {Quiet, Crash, Rally, RallyAtThreshold, PlungeRecover, Drift, Spike}

\* The lengths of the quiet stretch: too short for detect_signals whatever
\* follows, and around its minimum of 30 candles.
QuietLengths == {AtrPeriod, MinCandles - 4, MinCandles - 3}

Tails == UNION {[1..n -> CandleShapes] : n \in 1..MaxTail}

Candles(quiet, tail) ==
    [i \in 1..(quiet + Len(tail) + 1) |->
        Kline(i, IF i > quiet /\ i <= quiet + Len(tail) THEN tail[i - quiet] ELSE Quiet)]

KlineAnswers ==
    {KlinesRaised, KlinesError} \cup
    {KlinesCandles(Candles(quiet, tail)) : quiet \in QuietLengths, tail \in Tails}

\* candles[:last_idx+1] with last_idx = len(candles) - 2
ClosedCandles(candles) == SubSeq(candles, 1, Len(candles) - 1)

\* The request of line 283 has been answered.
InitDetect ==
    /\ pc = "klines"
    /\ klines \in {Some(a) : a \in KlineAnswers}
    /\ st_lists = None
    /\ st_result = None
    /\ detect_result = None
    /\ creds = TRUE
    /\ exchange_info = Some(BothTrading)
    /\ symbols = GetUsdtPairs(BothTrading)
    /\ cycle = 1
    /\ reported_signals = {}
    /\ signal_log = <<>>
    /\ pool = "stage1"
    /\ futures1 = [i \in 1..Len(symbols) |-> Pending]
    /\ signal_candidates = <<>>
    /\ futures2 = <<>>
    /\ final_signals = EmptySignals
    /\ fresh_signals = EmptySignals
    /\ msg = None
    /\ tg_msg = None
    /\ attempt = 0
    /\ tg_events = <<>>
    /\ success = None
    /\ server_time = None
    /\ next_hour = None
    /\ sleep_time = None
    /\ store_at_scan = {}
    /\ handed = [k \in AllKeys |-> 0]
    /\ delivered = [k \in AllKeys |-> 0]

\* The candle the for-loop of calculate_supertrend works on next.
NextBar == AtrPeriod + 1 + Len(st_lists.trend_list)

\* Line 307 on its own: calculate_supertrend is called on the closed candles;
\* it returns None for fewer than atr_period + 1 of them.
CalculateSupertrend ==
    /\ pc = "klines"
    /\ IF Len(ClosedCandles(klines[1].candles)) < AtrPeriod + 1
       THEN /\ st_result' = None
            /\ pc' = "supertrend"
            /\ UNCHANGED st_lists
       ELSE /\ st_lists' = EmptyLists
            /\ pc' = "bars"
            /\ UNCHANGED st_result
    /\ UNCHANGED <<klines, detect_result, creds, exchange_info, symbols, cycle,
                   reported_signals, signal_log, scan_vars, report_vars, tg_vars,
                   sched_vars, hist_vars>>

\* One pass of its for-loop.
SupertrendNextBar ==
    /\ pc = "bars"
    /\ NextBar <= Len(ClosedCandles(klines[1].candles))
    /\ \E candles \in {ClosedCandles(klines[1].candles)} :
         \E atr \in {calculate_atr(SubSeq(candles, 1, NextBar), AtrPeriod)[1]} :
            st_lists' = SupertrendBar(candles, AtrPeriod, SupertrendMultiplier,
                                      NextBar, atr, st_lists)
    /\ UNCHANGED <<pc, klines, st_result, detect_result, creds, exchange_info, symbols,
                   cycle, reported_signals, signal_log, scan_vars, report_vars, tg_vars,
                   sched_vars, hist_vars>>

\* The loop is over and calculate_supertrend returns.
SupertrendReturn ==
    /\ pc = "bars"
    /\ NextBar > Len(ClosedCandles(klines[1].candles))
    /\ st_result' = Some(SupertrendResult(st_lists))
    /\ pc' = "supertrend"
    /\ UNCHANGED <<klines, st_lists, detect_result, creds, exchange_info, symbols, cycle,
                   reported_signals, signal_log, scan_vars, report_vars, tg_vars,
                   sched_vars, hist_vars>>

\* detect_signals(symbols[1]) runs from the answer to its return.
DetectSignalsReturn ==
    /\ pc = "supertrend"
    /\ detect_result' = detect_signals(symbols[1], klines[1], st_result)
    /\ pc' = "detected"
    /\ UNCHANGED <<klines, st_lists, st_result, creds, exchange_info, symbols, cycle,
                   reported_signals, signal_log, scan_vars, report_vars, tg_vars,
                   sched_vars, hist_vars>>

NextDetect ==
    \/ CalculateSupertrend
    \/ SupertrendNextBar
    \/ SupertrendReturn
    \/ DetectSignalsReturn

SpecDetect == InitDetect /\ [][NextDetect]_vars

(***************************************************************************)
(* Properties.                                                             *)
(***************************************************************************)
\* The report step of the running iteration is over: the fresh signals, if
\* any, have been handed to send_telegram.
Reported == pc \in {"send", "sent", "wait", "sleeping"}

DetectedKeys == KeysOf(final_signals)
FreshKeys == KeysOf(fresh_signals)

\* C1, as stated: a signal key detected in two cycles yields a notification
\* exactly once. Whether a notification is a report handed to the notifier
\* or a report the notifier sent, once the iteration's send is over every
\* key the scan detected has exactly one.
C1_NotifiedExactlyOnce ==
    pc = "wait" => \A k \in DetectedKeys : handed[k] = 1 \/ delivered[k] = 1

\* C1, amended: no key is part of more than one report that was sent; a key
\* is handed to the notifier only while no report with it was sent (so a
\* second hand-over follows a failed send only); every detected key, each
\* hour bucket of a symbol on its own, has been handed over at least once.
C1_DeliveredAtMostOnce ==
    /\ \A k \in AllKeys : delivered[k] <= 1
    /\ pc = "send" => \A k \in FreshKeys : delivered[k] = 0
    /\ Reported => \A k \in DetectedKeys : handed[k] >= 1

\* C1's case: a key detected in a second cycle after its report was sent is
\* not handed over again.
C1_Witness ==
    /\ cycle = 2
    /\ pc = "wait"
    /\ \E k \in DetectedKeys : k \in store_at_scan /\ delivered[k] = 1 /\ handed[k] = 1

\* C2: when send_telegram returned failure, every key the iteration added to
\* reported_signals is un-marked (the store is what it was when the iteration
\* began), and a detected signal is withheld from the notifier only when a
\* report with its key was sent: a signal whose report failed is fresh again
\* in the next cycle that detects it.
C2_FailedKeysUnmarked ==
    /\ (pc \in {"wait", "sleeping"} /\ success = Some(FALSE)) =>
          /\ reported_signals \cap FreshKeys = {}
          /\ reported_signals = store_at_scan
    /\ Reported => \A k \in DetectedKeys : k \notin FreshKeys => delivered[k] >= 1

\* C2's case: a signal whose report failed is handed to the notifier again.
C2_Witness ==
    /\ pc = "send"
    /\ \E k \in FreshKeys : handed[k] = 2 /\ delivered[k] = 0

\* C3: a step removes keys from reported_signals only when send_telegram
\* returned failure, and then only keys the running iteration added; every
\* other step leaves the store or grows it; the key of a report that was sent
\* is in the store ever after and is not handed to the notifier again.
C3_RemovalOnlyOnFailure ==
    /\ [][\/ reported_signals \subseteq reported_signals'
          \/ /\ pc = "sent"
             /\ success = Some(FALSE)
             /\ reported_signals' \subseteq reported_signals
             /\ (reported_signals \ reported_signals') \cap store_at_scan = {}]_vars
    /\ [](\A k \in AllKeys : delivered[k] >= 1 => k \in reported_signals)
    /\ [][\A k \in AllKeys : delivered[k] >= 1 => handed'[k] = handed[k]]_vars

\* C3's case: a failed report's keys were removed and the keys of earlier
\* iterations stayed.
C3_Witness ==
    /\ pc = "wait"
    /\ success = Some(FALSE)
    /\ FreshCount > 0
    /\ store_at_scan # {}
    /\ reported_signals = store_at_scan

IsPost(e) == e.ev = "post"
NumPosts == Cardinality({i \in 1..Len(tg_events) : IsPost(tg_events[i])})
Answered200(e) == IsPost(e) /\ e.outcome = "200"

\* C4: with credentials set send_telegram posts at most 3 times; no post
\* follows a post answered 200, and the call returns success exactly after
\* one; when it returns failure it has posted exactly 3 times.
C4_AtMostThreePosts ==
    /\ NumPosts <= 3
    /\ \A i \in 1..(Len(tg_events) - 1) : ~Answered200(tg_events[i])
    /\ (pc = "sent" /\ creds) =>
          /\ tg_events # <<>>
          /\ success = Some(TRUE) <=> Answered200(tg_events[Len(tg_events)])
          /\ success = Some(FALSE) => NumPosts = 3
          /\ success \in {Some(TRUE), Some(FALSE)}

\* C4's case: every attempt failed and the call has returned.
C4_Witness ==
    /\ pc = "sent"
    /\ creds
    /\ success = Some(FALSE)
    /\ NumPosts = 3

\* C5, as stated: in send_telegram a 2-second pause separates any two
\* consecutive posts, whatever made the earlier one fail, and no pause
\* follows the last post.
C5_PauseBetweenPosts ==
    /\ \A i \in 1..(Len(tg_events) - 1) :
          IsPost(tg_events[i]) =>
             /\ tg_events[i + 1].ev = "sleep"
             /\ tg_events[i + 1].ms = 2000
    /\ pc = "sent" /\ tg_events # <<>> => IsPost(tg_events[Len(tg_events)])

ThisCycleLog == SelectSeq(signal_log, LAMBDA e : e.timestamp = cycle)

EntriesFor(list, signal_type) ==
    [i \in 1..Len(list) |-> [timestamp |-> cycle, type |-> signal_type, data |-> list[i]]]

C7_BodyWithinCap ==
    pc = "send" =>
        /\ msg # None /\ tg_msg # None
        /\ StrLen(tg_msg[1]) <= 4096
        /\ tg_msg[1].from = msg[1].from
        /\ StrLen(msg[1]) > 4096 => StrLen(tg_msg[1]) = 4096
        /\ StrLen(msg[1]) <= 4096 => tg_msg[1] = msg[1]

\* C7's case: a report longer than the cap is being sent.
C7_Witness ==
    /\ pc = "send"
    /\ StrLen(msg[1]) > 4096

\* C8: the next boundary is the smallest multiple of 3600 s strictly greater
\* than the server time t, the sleep is max(60 s, next boundary - t + 5 s);
\* for t = 3700 s the boundary is 7200 s and the sleep 7200 - 3700 + 5 s.
C8_NextBoundaryAndSleep ==
    pc = "sleeping" =>
        LET t == server_time[1]
            b == next_hour[1]
            z == sleep_time[1]
        IN  /\ b % 3600000 = 0
            /\ b > t
            /\ b - 3600000 <= t
            /\ z >= 60000 /\ z >= b - t + 5000
            /\ z = 60000 \/ z = b - t + 5000
            /\ t = 3700000 => b = 7200000 /\ z = 3505000

\* C8's case: the server time is 3700 s.
C8_Witness ==
    /\ pc = "sleeping"
    /\ server_time = Some(3700000)

\* C10: when the exchange-metadata fetch failed, get_usdt_pairs returned the
\* empty list and main has exited: no iteration began, no pool was created,
\* the store and the log are empty and nothing was handed to the notifier.
C10_FetchFailureExits ==
    exchange_info = Some(FetchFailed) =>
        /\ symbols = <<>>
        /\ pc = "exited"
        /\ cycle = 0
        /\ pool = "none" /\ futures1 = <<>> /\ futures2 = <<>>
        /\ reported_signals = {}
        /\ signal_log = <<>>
        /\ tg_events = <<>> /\ tg_msg = None
        /\ \A k \in AllKeys : handed[k] = 0

\* C10's case: the fetch failed and main returned.
C10_Witness ==
    /\ exchange_info = Some(FetchFailed)
    /\ pc = "exited"

Drained(futures) == \A i \in 1..Len(futures) : futures[i].st = "collected"

\* Everything but the futures of stage 1, and everything but those of stage 2.
AllButFutures1 ==
    <<pc, creds, exchange_info, symbols, cycle, reported_signals, signal_log,
      pool, signal_candidates, futures2, final_signals, fresh_signals, msg,
      tg_msg, attempt, tg_events, success, server_time, next_hour, sleep_time,
      store_at_scan, handed, delivered, klines, st_lists, st_result, detect_result>>
AllButFutures2 ==
    <<pc, creds, exchange_info, symbols, cycle, reported_signals, signal_log,
      pool, futures1, signal_candidates, final_signals, fresh_signals, msg,
      tg_msg, attempt, tg_events, success, server_time, next_hour, sleep_time,
      store_at_scan, handed, delivered, klines, st_lists, st_result, detect_result>>

\* A task of the list of futures ran to its return in this step.
Ran(before, after, i) == before[i].st = "pending" /\ after[i].st = "done"

\* C9: under every interleaving of the worker tasks, the stage-2 pool exists
\* only once every stage-1 future was taken; main is past the scan (where
\* it reads and writes reported_signals) only with both pools closed and
\* every future taken, and no other step changes reported_signals; a worker
\* task changes nothing but its own future.
C9_StoreTouchedAfterDrain ==
    /\ [](pool = "stage2" => Drained(futures1))
    /\ [](pool = "stage1" => futures2 = <<>>)
    /\ [](pc \in {"filter", "report", "send", "sent", "wait", "sleeping"} =>
            pool = "none" /\ Drained(futures1) /\ Drained(futures2))
    /\ [][reported_signals' # reported_signals =>
            /\ pc \in {"filter", "sent"}
            /\ pool = "none" /\ Drained(futures1) /\ Drained(futures2)]_vars
    /\ [][\A i \in 1..Len(futures1) :
            (Len(futures1') = Len(futures1) /\ Ran(futures1, futures1', i)) =>
               /\ UNCHANGED AllButFutures1
               /\ \A j \in 1..Len(futures1) : j # i => futures1'[j] = futures1[j]]_vars
    /\ [][\A i \in 1..Len(futures2) :
            (Len(futures2') = Len(futures2) /\ Ran(futures2, futures2', i)) =>
               /\ UNCHANGED AllButFutures2
               /\ \A j \in 1..Len(futures2) : j # i => futures2'[j] = futures2[j]]_vars

\* C9's case: of two stage-2 tasks the second has returned and was taken
\* while the first is still running.
C9_Witness ==
    /\ pool = "stage2"
    /\ Len(futures2) = 2
    /\ futures2[1].st = "pending"
    /\ futures2[2].st = "collected"

\* C14: the wake-up time, the server time read plus the sleep, lies at least
\* 5 s and less than 60 s after the next hour boundary, so it falls in a
\* later hour bucket than the server time read; the sleep is never shorter
\* than 60 s.
C14_WakeUpAfterBoundary ==
    pc = "sleeping" =>
        LET t == server_time[1]
            z == sleep_time[1]
            boundary == (t \div 3600000 + 1) * 3600000
            wake == t + z
        IN  /\ wake >= boundary + 5000
            /\ wake < boundary + 60000
            /\ wake \div 3600000 > t \div 3600000
            /\ z >= 60000

\* C14's case: the server time is less than 55 s before the boundary, the
\* sleep is the minimum and the wake-up is later than 5 s past the boundary.
C14_Witness ==
    /\ pc = "sleeping"
    /\ sleep_time = Some(60000)
    /\ server_time[1] + 60000 > next_hour[1] + 5000

\* The keys of stage-1 candidate j.
CandidateKeys(j) ==
    {SignalKey(kind, signal_candidates[j][kind]) : kind \in DOMAIN signal_candidates[j]}

\* The stage-2 task of candidate j returned None and the result was taken.
RsiMissing(j) == futures2[j].st = "collected" /\ futures2[j].res = None

\* C15: once the scan has returned, a candidate whose RSI task returned None
\* is in no list of the scan result, is not fresh, is not logged in this
\* iteration and its keys are not added to reported_signals; every signal
\* of the scan result carries an RSI that a task returned.
C15_RsiMissingDropped ==
    pc \in {"filter", "report", "send", "sent", "wait", "sleeping"} =>
        /\ \A j \in 1..Len(futures2) :
              RsiMissing(j) =>
                 /\ CandidateKeys(j) \cap DetectedKeys = {}
                 /\ CandidateKeys(j) \cap FreshKeys = {}
                 /\ CandidateKeys(j) \cap reported_signals \subseteq store_at_scan
                 /\ \A e \in Range(ThisCycleLog) :
                       SignalKey(e.type, e.data) \notin CandidateKeys(j)
        /\ \A s \in Range(final_signals.breakouts) \cup Range(final_signals.retests) :
              s.rsi \in RsiValues

\* C15's case: of two candidates one has no RSI and the other is being
\* reported.
C15_Witness ==
    /\ pc = "send"
    /\ Len(futures2) = 2
    /\ \E j \in 1..2 : RsiMissing(j)
    /\ FreshKeys # {}

\* The place of a symbol on the curated list: the first ticker that gives it.
CuratedIndex(sym) ==
    CHOOSE k \in 1..Len(CUSTOM_TICKERS) :
        /\ Upper(CUSTOM_TICKERS[k]) \o USDT = sym
        /\ \A m \in 1..(k - 1) : Upper(CUSTOM_TICKERS[m]) \o USDT # sym

OnCuratedList(sym) ==
    \E k \in 1..Len(CUSTOM_TICKERS) : Upper(CUSTOM_TICKERS[k]) \o USDT = sym

\* C13: every symbol get_usdt_pairs returned is on the curated list and the
\* answer lists it as quoted in USDT and trading; no symbol is returned
\* twice; the symbols stand in the order of the curated list.
C13_OnlyTradingUsdtInOrder ==
    pc = "resolved" =>
        /\ \A i \in 1..Len(symbols) :
              /\ OnCuratedList(symbols[i])
              /\ \E x \in exchange_info[1].symbols :
                    x.symbol = symbols[i] /\ x.quoteAsset = "USDT" /\ x.status = "TRADING"
        /\ \A i, j \in 1..Len(symbols) : i # j => symbols[i] # symbols[j]
        /\ \A i, j \in 1..Len(symbols) :
              i < j => CuratedIndex(symbols[i]) < CuratedIndex(symbols[j])

\* C13's case: the answer held trading USDT pairs besides a pair not quoted
\* in USDT and a pair not trading, and two symbols were returned.
C13_Witness ==
    /\ pc = "resolved"
    /\ Len(symbols) = 2
    /\ \E x \in exchange_info[1].symbols : x.quoteAsset # "USDT"
    /\ \E x \in exchange_info[1].symbols : x.symbol \notin Range(symbols)

\* The direction calculate_supertrend gave bar b of the bars it evaluated,
\* as the claim's state machine gives it from the bar before: close is the
\* bar's close, upper and lower the bands of the bar before.
Direction(prev, close, upper, lower) ==
    IF prev = -1 /\ close > upper THEN 1
    ELSE IF prev = 1 /\ close < lower THEN -1
    ELSE prev

\* C12: calculate_supertrend evaluates the candles from the eleventh on; the
\* direction of the first of them is +1, the direction of each later one is
\* the state machine's step from the direction of the bar before (up when
\* the close exceeds the upper band of the bar before, down when it drops
\* below its lower band, else carried forward), and every direction is +1
\* or -1.
C12_DirectionStateMachine ==
    (pc \in {"supertrend", "detected"} /\ st_result # None) =>
        LET st == st_result[1]
            closed == ClosedCandles(klines[1].candles)
            n == Len(closed) - 10
        IN  /\ Len(st.trend_list) = n
            /\ Len(st.up_list) = n /\ Len(st.dn_list) = n
            /\ st.trend_list[1] = 1
            /\ \A b \in 2..n :
                  st.trend_list[b] = Direction(st.trend_list[b - 1], closed[10 + b].close,
                                               st.dn_list[b - 1], st.up_list[b - 1])
            /\ \A b \in 1..n : st.trend_list[b] \in {1, -1}
            /\ st.last_trend = st.trend_list[n]

\* C12's case: the direction was carried forward, then flipped down, then
\* flipped up.
C12_Witness ==
    /\ pc = "supertrend"
    /\ st_result # None
    /\ \E b \in 1..(Len(st_result[1].trend_list) - 3) :
          SubSeq(st_result[1].trend_list, b, b + 3) = <<1, 1, -1, 1>>

\* The answer of the klines request holds candles.
HasCandles == klines # None /\ klines[1].kind = "candles"

Closed == ClosedCandles(klines[1].candles)
LastClosed == Closed[Len(Closed)]
PrevClosed == Closed[Len(Closed) - 1]

\* detect_signals returned a breakout.
HasBreakout == detect_result # None /\ "breakout" \in DOMAIN detect_result[1]

\* The three gates on the last closed candle. The ATR is the one of period
\* 10 over the closed candles, the SMA the mean of the base-asset volumes of
\* the last 20 closed candles.
GateFlip ==
    LET trend == st_result[1].trend_list
    IN  Len(trend) >= 2 /\ trend[Len(trend) - 1] = -1 /\ trend[Len(trend)] = 1

GateMove ==
    2 * Abs(LastClosed.close - PrevClosed.close) >= calculate_atr(Closed, 10)[1]

GateVolume ==
    LET last20 == [j \in 1..20 |-> Closed[Len(Closed) - 20 + j].volume]
    IN  2 * 20 * LastClosed.volume > 3 * SumSeq(last20)

\* The closed candles are enough for the three gates to be defined.
GatesDefined == HasCandles /\ Len(Closed) >= 21

\* No division of detect_signals is by zero.
NoZeroDivisor ==
    /\ PrevClosed.close # 0
    /\ st_result[1].prev_dn # 0
    /\ st_result[1].last_up # 0

\* C11, as stated: detect_signals emits a breakout exactly when, on the last
\* closed candle, the direction flipped from -1 to +1, the move is at least
\* half the ATR and the volume is above 1.5 times the 20-period SMA.
C11_BreakoutIffThreeGates ==
    (pc = "detected" /\ GatesDefined) =>
        (HasBreakout <=> (GateFlip /\ GateMove /\ GateVolume))

\* C11, amended: a breakout is emitted only when the three gates hold; when
\* the answer holds at least 30 candles and no division is by zero it is
\* emitted exactly when they hold; when the answer holds fewer than 30
\* candles or is no list of candles, nothing is emitted.
C11_BreakoutIffGatesGivenThirtyCandles ==
    pc = "detected" =>
        /\ HasBreakout => (GatesDefined /\ GateFlip /\ GateMove /\ GateVolume)
        /\ (HasCandles /\ Len(klines[1].candles) >= 30 /\ NoZeroDivisor) =>
              (HasBreakout <=> (GateFlip /\ GateMove /\ GateVolume))
        /\ (~HasCandles \/ Len(klines[1].candles) < 30) => detect_result = None

\* C11's case: a breakout was emitted for an answer of 30 candles or more.
C11_Witness ==
    /\ pc = "detected"
    /\ HasBreakout
    /\ Len(klines[1].candles) >= 30

====
